---- MODULE Spec2Model ----
(***************************************************************************)
(* Model of the notebooks of the repository:                               *)
(*   - download_save, the parallel download job and the list of download   *)
(*     infos (xeno-canto/download-json.ipynb, and its cached variant);     *)
(*   - save_features, the parallel feature-extraction job and its summary  *)
(*     (xeno-canto/save-features.ipynb);                                   *)
(*   - the gradient descent loops (README.md and                           *)
(*     autograd-regression-gradient-descent.ipynb);                        *)
(*   - the simulated sample and the count pseudo-R^2 measures              *)
(*     (regression-dummy-variables.ipynb).                                 *)
(* Each notebook has its own specification; the variables of the others    *)
(* stay at their idle values.                                              *)
(* Strings are sequences of one-character strings, so that the string      *)
(* operations of the code (find, slicing, strip, format) are computed.     *)
(* A Python result is a record [kind, val]: an integer return value, the   *)
(* implicit None of a function that falls off its end, or a raised         *)
(* exception.                                                              *)
(***************************************************************************)
EXTENDS Integers, Sequences, FiniteSets, TLC

\* ------------------------------------------------------------------ bounds
NumItems == 2       \* items of one job (rows of download_info / recording_df)
MaxRuns == 2        \* executions of the feature-extraction cell
MaxPages == 2       \* pages of the API's answer
MaxRecs == 2        \* recordings of one page
NumPoints == 2      \* rows of the regression data
MaxLen == 3         \* observations of the classification data
MaxUpdates == 2     \* parameter updates computed on data that is not yet fitted

Tasks == 1..NumItems
Ids == 1..NumItems  \* recording identifiers

\* ----------------------------------------------------------- Python values
Pending == [kind |-> "pending", val |-> 0]
ReturnInt(v) == [kind |-> "int", val |-> v]
ReturnNone == [kind |-> "None", val |-> 0]
Raised == [kind |-> "raise", val |-> 0]

Finished(r) == r.kind # "pending"

\* ----------------------------------------------------------------- strings
\* string.whitespace of Python 2.7: blank, \t, \n, \r, \x0b, \x0c; str.strip()
\* with no argument removes these.
VerticalTab == ""
Whitespace == {" ", "\t", "\n", "\r", "\f", VerticalTab}

\* str.find(c): the lowest 0-based index of c in s, or -1.
find(s, c) ==
    IF \E i \in 1..Len(s) : s[i] = c
    THEN (CHOOSE i \in 1..Len(s) : s[i] = c /\ \A j \in 1..(i - 1) : s[j] # c) - 1
    ELSE -1

\* s[a:b] for 0 <= a and b = len(s), as the code uses it.
slice(s, a, b) == SubSeq(s, a + 1, b)

RECURSIVE lstrip(_)
lstrip(s) == IF s # <<>> /\ Head(s) \in Whitespace THEN lstrip(Tail(s)) ELSE s

RECURSIVE rstrip(_)
rstrip(s) ==
    IF s # <<>> /\ s[Len(s)] \in Whitespace
    THEN rstrip(SubSeq(s, 1, Len(s) - 1))
    ELSE s

\* str.strip()
strip(s) == rstrip(lstrip(s))

\* 'https:{}'.format(x)
https_format(x) == <<"h", "t", "t", "p", "s", ":">> \o x

\* The URL download_save re-derives from the text of a RelativeURIError.
retry_url(s) == https_format(strip(slice(s, find(s, "=") + 1, Len(s))))

\* ------------------------------------------------------------------ inputs
Digits == <<"1", "2", "3", "4">>

\* item['file'] of recording id: a scheme-less address.
FileOf(id) == <<"/", "/", "x", "/", Digits[id]>>

\* './mp3/{}.mp3'.format(id)
mp3_format(id) == <<".", "/", "m", "p", "3", "/">> \o id \o <<".", "m", "p", "3">>

\* get_recording_download_info: the url and the mp3 path of an item.
get_recording_download_info(item) ==
    [url |-> https_format(item.file), mp3 |-> mp3_format(item.id)]

\* The item of recording id in a page of the API's answer.
Item(id) == [id |-> <<Digits[id]>>, file |-> FileOf(id)]

\* The mp3 path of recording id.
Mp3Path(id) == get_recording_download_info(Item(id)).mp3

\* The texts a RelativeURIError can carry. httplib2 formats it as
\* "Only absolute URIs are allowed. uri = <location>"; the location may itself
\* hold '=' (a query string) and blanks; a text with no '=' is possible too.
UriPrefix == <<"u", "r", "i", " ", "=", " ">>
ErrorTexts ==
    { UriPrefix \o <<"/", "/", "m", "/", "a">>,
      UriPrefix \o <<"/", "/", "m", "?", "k", "=", "a", "\r">>,
      <<"/", "/", "m", " ">> }

RequestOutcomes == {"ok", "RelativeURIError", "error"}
WriteOutcomes == {"ok", "open_fail", "write_fail"}
OpenOutcomes == {"ok", "open_fail"}

\* ------------------------------------------------------------------- state
VARIABLES
    cached,         \* TRUE: download_save of the cached notebook variant
    download_info,  \* the job's items: a sequence of [url, mp3]
    mp3,            \* mp3 file of each id: "absent", "partial", "complete"
    dpc,            \* position of each download_save task
    requested,      \* the requests of each task, in order: [url, outcome]
    errtext,        \* str(e) of the RelativeURIError of the first request
    wrote,          \* each task's write of its mp3: "none", "opened", or its outcome
    dres,           \* result of each download_save task
    job,            \* "running", "finished", "aborted"
    results,        \* the list Parallel returns
    recording,      \* the id of each row of recording_df
    spectral,       \* ./features/spectral/<id>.p: "absent", "partial", "complete"
    chroma,         \* ./features/chroma/<id>.p
    swrites,        \* how often each spectral file was opened for writing
    cwrites,        \* how often each chroma file was opened for writing
    fpc,            \* position of each save_features call
    result,         \* the local variable result of each call
    flog,           \* what each call did: its load and its two stages
    after,          \* the call was entered after a call for its id returned 1
    fres,           \* result of each save_features call
    succeeded,      \* ids for which some call has returned 1
    printed,        \* <<n>> once "n files processed" is printed
    run,            \* number of the current execution of the job cell
    script,         \* what the network and the disk answer to each task
    mp3_0,          \* the mp3 files when the job starts
    cell,           \* the notebook cell executed last (outside the two jobs)
    sample,         \* the arrays drawn: intercept, age, gender, height, noise
    sim_X,          \* X = np.hstack([intercept, age, gender, height])
    sim_y,          \* y = np.dot(X, w) + noise
    y_true,         \* y: the binary labels
    y_pred,         \* y_pred: the predicted probabilities
    rsquare,        \* the values of count_rsquare and count_adjusted_rsquare
    gd_loop,        \* the gradient descent loop run: "batch", "stochastic", "autograd"
    gd_data,        \* data: the rows <<x, y>>
    gd_b,           \* b (w[0] of the autograd notebook)
    gd_w,           \* w (w[1] of the autograd notebook)
    gd_i,           \* the loop variable i: iterations (epochs) completed
    gd_pc,          \* "loop", "epoch" (inside for j in indices), "done"
    gd_indices,     \* indices, shuffled
    gd_used,        \* the rows used by the updates of the current epoch, in order
    gd_last,        \* the last update: the parameters it got and returned
    gd_updates,     \* number of parameter updates made
    dataset,        \* the pages fetched from the API: [recordings |-> items]
    site,           \* the number of result pages the API has for the query
    page_data,      \* data: <<>> if unassigned, else <<the parsed first response>>
    num_pages,      \* num_pages = data['numPages'] (0: not assigned)
    loop_i,         \* the loop variable i of the page loop and of the save loop
    ppc,            \* position in the cells that fetch and save the pages
    page_requests,  \* the pages requested from the API, in order
    json_dir,       \* ./json/<k>.json: <<>> if absent, else <<text>>
    global_d,       \* the kernel's global d: <<>> if undefined, else <<page>>
    fetched,        \* <<dataset>> of the last completed run of the cached loop
    prun            \* number of the current execution of the cached loop cell

dvars == <<cached, download_info, mp3, dpc, requested, errtext, wrote, dres>>
fvars == <<recording, spectral, chroma, swrites, cwrites, fpc, result, flog,
           after, fres, succeeded, printed, run>>
gvars == <<gd_loop, gd_data, gd_b, gd_w, gd_i, gd_pc, gd_indices, gd_used,
           gd_last, gd_updates>>
svars == <<sample, sim_X, sim_y>>
rvars == <<y_true, y_pred, rsquare>>
pvars == <<site, page_data, num_pages, loop_i, ppc, page_requests, json_dir, global_d,
           fetched, prun>>
ovars == <<script, mp3_0, cell, dataset, gvars, svars, rvars, pvars>>
vars == <<dvars, fvars, job, results, ovars>>

\* os.path.exists
exists(f) == f # "absent"

\* open(path, 'wb'): creates the file or truncates it; a failed open leaves
\* the file as it was.
opened(f, outcome) == IF outcome = "open_fail" THEN f ELSE "partial"

\* open(path, 'wb') followed by a write: a failed open leaves the file as it
\* was, a failed write leaves a truncated file.
written(f, outcome) ==
    CASE outcome = "open_fail" -> f
      [] outcome = "write_fail" -> "partial"
      [] outcome = "ok" -> "complete"

\* Parallel(...)(delayed(f)(item) for item in items): the list of the return
\* values in item order, or the exception of a task re-raised to the caller.
\* The results are retrieved in item order, so the exception of a task is
\* re-raised once every earlier task has ended. After that no further call is
\* started; a call a thread is running goes on to its end.
Parallel(res) ==
    /\ job = "running"
    /\ \/ \E t \in Tasks : /\ res[t].kind = "raise"
                           /\ \A u \in 1..(t - 1) : Finished(res[u])
       \/ \A t \in Tasks : Finished(res[t])
    /\ IF \E t \in Tasks : res[t].kind = "raise"
       THEN job' = "aborted" /\ results' = results
       ELSE job' = "finished" /\ results' = [t \in Tasks |-> res[t]]

NoTasks == [t \in Tasks |-> "start"]

NoLog == [load |-> "none", s |-> "none", c |-> "none"]

\* The download job's state while the feature job is modelled, and conversely.
DownloadIdle ==
    /\ cached = FALSE
    /\ download_info = <<>>
    /\ mp3 = <<>>
    /\ dpc = <<>>
    /\ requested = <<>>
    /\ errtext = <<>>
    /\ wrote = <<>>
    /\ dres = <<>>

\* The state of the other notebooks while the two jobs are modelled.
InfosIdle == dataset = <<>>

PagesIdle ==
    /\ site = 0
    /\ page_data = <<>>
    /\ num_pages = 0
    /\ loop_i = 0
    /\ ppc = "none"
    /\ page_requests = <<>>
    /\ json_dir = <<>>
    /\ global_d = <<>>
    /\ fetched = <<>>
    /\ prun = 1

ScriptIdle == script = <<>> /\ mp3_0 = <<>>

GdIdle ==
    /\ gd_loop = "none"
    /\ gd_data = <<>>
    /\ gd_b = <<0, 1>>
    /\ gd_w = <<0, 1>>
    /\ gd_i = 0
    /\ gd_pc = "none"
    /\ gd_indices = <<>>
    /\ gd_used = <<>>
    /\ gd_last = <<>>
    /\ gd_updates = 0

SampleIdle == sample = <<>> /\ sim_X = <<>> /\ sim_y = <<>>

RsquareIdle == y_true = <<>> /\ y_pred = <<>> /\ rsquare = <<>>

OthersIdle ==
    /\ cell = "job"
    /\ ScriptIdle
    /\ GdIdle
    /\ SampleIdle
    /\ RsquareIdle
    /\ InfosIdle
    /\ PagesIdle

FeaturesIdle ==
    /\ recording = <<>>
    /\ spectral = <<>>
    /\ chroma = <<>>
    /\ swrites = <<>>
    /\ cwrites = <<>>
    /\ fpc = <<>>
    /\ result = <<>>
    /\ flog = <<>>
    /\ after = <<>>
    /\ fres = <<>>
    /\ succeeded = {}
    /\ printed = <<>>
    /\ run = 1

\* ---------------------------------------------------------- download_save
DownloadStart ==
    /\ cached \in BOOLEAN
    /\ download_info = [t \in Tasks |-> get_recording_download_info(Item(t))]
    /\ mp3 \in [{Mp3Path(id) : id \in Ids} -> {"absent", "partial", "complete"}]
    /\ dpc = NoTasks
    /\ requested = [t \in Tasks |-> <<>>]
    /\ errtext = [t \in Tasks |-> <<>>]
    /\ wrote = [t \in Tasks |-> "none"]
    /\ dres = [t \in Tasks |-> Pending]
    /\ job = "running"
    /\ results = <<>>
    /\ FeaturesIdle

InitDownload == DownloadStart /\ OthersIdle

DFinish(t, r) ==
    /\ dpc' = [dpc EXCEPT ![t] = "done"]
    /\ dres' = [dres EXCEPT ![t] = r]

\* download_save_enter without the existence check of the cached variant.
download_save_enter_nocheck(t) ==
    /\ job = "running" /\ dpc[t] = "start"
    /\ dpc' = [dpc EXCEPT ![t] = "request1"]
    /\ UNCHANGED <<ovars, cached, download_info, mp3, requested, errtext, wrote, dres,
                   job, results, fvars>>

\* Entry of download_save; the cached variant returns 1 when the mp3 exists.
download_save_enter(t) ==
    /\ job = "running" /\ dpc[t] = "start"
    /\ IF cached /\ exists(mp3[download_info[t].mp3])
       THEN DFinish(t, ReturnInt(1))
       ELSE /\ dpc' = [dpc EXCEPT ![t] = "request1"]
            /\ dres' = dres
    /\ UNCHANGED <<ovars, cached, download_info, mp3, requested, errtext, wrote, job,
                   results, fvars>>

\* First h.request(url, 'GET').
download_save_request(t) ==
    /\ dpc[t] = "request1"
    /\ \E o \in RequestOutcomes :
        /\ requested' = [requested EXCEPT ![t] =
                            Append(@, [url |-> download_info[t].url, outcome |-> o])]
        /\ CASE o = "ok" ->
                  /\ dpc' = [dpc EXCEPT ![t] = "write1"]
                  /\ UNCHANGED <<dres, errtext>>
             [] o = "RelativeURIError" ->
                  /\ \E s \in ErrorTexts : errtext' = [errtext EXCEPT ![t] = s]
                  /\ dpc' = [dpc EXCEPT ![t] = "request2"]
                  /\ dres' = dres
             [] o = "error" ->
                  /\ DFinish(t, Raised)
                  /\ errtext' = errtext
    /\ UNCHANGED <<ovars, cached, download_info, mp3, wrote, job, results, fvars>>

\* with open(mp3, 'wb') as f: of the first response.  The file exists, empty,
\* from here on; the write is a later step of the thread.
download_save_open(t) ==
    /\ dpc[t] = "write1"
    /\ \E o \in OpenOutcomes :
        /\ mp3' = [mp3 EXCEPT ![download_info[t].mp3] = opened(@, o)]
        /\ IF o = "ok"
           THEN /\ wrote' = [wrote EXCEPT ![t] = "opened"]
                /\ dpc' = [dpc EXCEPT ![t] = "writing1"]
                /\ dres' = dres
           ELSE /\ wrote' = [wrote EXCEPT ![t] = o]
                /\ DFinish(t, Raised)
    /\ UNCHANGED <<ovars, cached, download_info, requested, errtext, job, results,
                   fvars>>

\* f.write(content) of the first response; the function then falls off its
\* end.
download_save_write(t) ==
    /\ dpc[t] = "writing1"
    /\ \E o \in WriteOutcomes \ {"open_fail"} :
        /\ mp3' = [mp3 EXCEPT ![download_info[t].mp3] = written(@, o)]
        /\ wrote' = [wrote EXCEPT ![t] = o]
        /\ DFinish(t, IF o = "ok" THEN ReturnNone ELSE Raised)
    /\ UNCHANGED <<ovars, cached, download_info, requested, errtext, job, results,
                   fvars>>

\* download_save_retry that, on a second RelativeURIError, re-derives the URL
\* again and retries instead of returning 0.
download_save_retry_loop(t) ==
    /\ dpc[t] = "request2"
    /\ \E o \in RequestOutcomes :
        /\ requested' = [requested EXCEPT ![t] =
                            Append(@, [url |-> retry_url(errtext[t]), outcome |-> o])]
        /\ CASE o = "ok" ->
                  /\ dpc' = [dpc EXCEPT ![t] = "write2"]
                  /\ UNCHANGED <<dres, errtext>>
             [] o = "RelativeURIError" ->
                  /\ \E s \in ErrorTexts : errtext' = [errtext EXCEPT ![t] = s]
                  /\ UNCHANGED <<dpc, dres>>
             [] o = "error" ->
                  /\ DFinish(t, Raised)
                  /\ errtext' = errtext
    /\ UNCHANGED <<ovars, cached, download_info, mp3, wrote, job, results, fvars>>

\* download_save_retry that opens the mp3 path for writing before the second
\* request, so that a second RelativeURIError leaves an empty file behind.
download_save_retry_truncate(t) ==
    /\ dpc[t] = "request2"
    /\ mp3' = [mp3 EXCEPT ![download_info[t].mp3] = "partial"]
    /\ \E o \in RequestOutcomes :
        /\ requested' = [requested EXCEPT ![t] =
                            Append(@, [url |-> retry_url(errtext[t]), outcome |-> o])]
        /\ CASE o = "ok" ->
                  /\ dpc' = [dpc EXCEPT ![t] = "write2"]
                  /\ dres' = dres
             [] o = "RelativeURIError" -> DFinish(t, ReturnInt(0))
             [] o = "error" -> DFinish(t, Raised)
    /\ UNCHANGED <<ovars, cached, download_info, errtext, wrote, job, results,
                   fvars>>

\* The handler of RelativeURIError: the request of the re-derived URL.
download_save_retry(t) ==
    /\ dpc[t] = "request2"
    /\ \E o \in RequestOutcomes :
        /\ requested' = [requested EXCEPT ![t] =
                            Append(@, [url |-> retry_url(errtext[t]), outcome |-> o])]
        /\ CASE o = "ok" ->
                  /\ dpc' = [dpc EXCEPT ![t] = "write2"]
                  /\ dres' = dres
             [] o = "RelativeURIError" -> DFinish(t, ReturnInt(0))
             [] o = "error" -> DFinish(t, Raised)
    /\ UNCHANGED <<ovars, cached, download_info, mp3, errtext, wrote, job, results,
                   fvars>>

\* with open(mp3, 'wb') as f: of the retried response.
download_save_retry_open(t) ==
    /\ dpc[t] = "write2"
    /\ \E o \in OpenOutcomes :
        /\ mp3' = [mp3 EXCEPT ![download_info[t].mp3] = opened(@, o)]
        /\ IF o = "ok"
           THEN /\ wrote' = [wrote EXCEPT ![t] = "opened"]
                /\ dpc' = [dpc EXCEPT ![t] = "writing2"]
                /\ dres' = dres
           ELSE /\ wrote' = [wrote EXCEPT ![t] = o]
                /\ DFinish(t, Raised)
    /\ UNCHANGED <<ovars, cached, download_info, requested, errtext, job, results,
                   fvars>>

\* f.write(content) of the retried response, then return 1.
download_save_retry_write(t) ==
    /\ dpc[t] = "writing2"
    /\ \E o \in WriteOutcomes \ {"open_fail"} :
        /\ mp3' = [mp3 EXCEPT ![download_info[t].mp3] = written(@, o)]
        /\ wrote' = [wrote EXCEPT ![t] = o]
        /\ DFinish(t, IF o = "ok" THEN ReturnInt(1) ELSE Raised)
    /\ UNCHANGED <<ovars, cached, download_info, requested, errtext, job, results,
                   fvars>>

\* results = Parallel(n_jobs=5, backend='threading')(... download_save ...)
ParallelDownload ==
    /\ Parallel(dres)
    /\ UNCHANGED <<ovars, dvars, fvars>>

NextDownload ==
    \/ \E t \in Tasks :
        \/ download_save_enter(t)
        \/ download_save_request(t)
        \/ download_save_open(t)
        \/ download_save_write(t)
        \/ download_save_retry(t)
        \/ download_save_retry_open(t)
        \/ download_save_retry_write(t)
    \/ ParallelDownload

SpecDownload == InitDownload /\ [][NextDownload]_vars

\* The job under the scheduling of its thread pool: a task that can take its
\* next step takes it, and Parallel returns or re-raises once it can.
SpecDownloadLive ==
    /\ InitDownload
    /\ [][NextDownload]_vars
    /\ \A t \in Tasks :
          WF_vars(\/ download_save_enter(t)
                  \/ download_save_request(t)
                  \/ download_save_open(t)
                  \/ download_save_write(t)
                  \/ download_save_retry(t)
                  \/ download_save_retry_open(t)
                  \/ download_save_retry_write(t))
    /\ WF_vars(ParallelDownload)

\* The download job with the answers of the network and of the disk fixed
\* per task when the job starts, so that runs differ by their interleaving
\* only. A script holds the outcome of the first request, the text of its
\* RelativeURIError, the outcome of the second request and of the write.
Scripts ==
    {[first |-> "ok", text |-> <<>>, second |-> "none", write |-> w] :
        w \in WriteOutcomes}
    \cup {[first |-> "error", text |-> <<>>, second |-> "none", write |-> "none"]}
    \cup {[first |-> "RelativeURIError", text |-> s, second |-> "ok", write |-> w] :
            s \in ErrorTexts, w \in WriteOutcomes}
    \cup {[first |-> "RelativeURIError", text |-> s, second |-> o, write |-> "none"] :
            s \in ErrorTexts, o \in {"RelativeURIError", "error"}}

\* What task t has met so far is what its script holds.
FollowsScript(t) ==
    /\ Len(requested[t]) >= 1 => requested[t][1].outcome = script[t].first
    /\ Len(requested[t]) >= 2 => requested[t][2].outcome = script[t].second
    /\ errtext[t] # <<>> => errtext[t] = script[t].text
    /\ wrote[t] = "opened" => script[t].write \in {"ok", "write_fail"}
    /\ wrote[t] \notin {"none", "opened"} => wrote[t] = script[t].write

InitScripted ==
    /\ DownloadStart
    /\ script \in [Tasks -> Scripts]
    /\ mp3_0 = mp3
    /\ cell = "job"
    /\ InfosIdle
    /\ PagesIdle
    /\ GdIdle
    /\ SampleIdle
    /\ RsquareIdle

Scripted == \A t \in Tasks : FollowsScript(t)

NextScripted ==
    \/ \E t \in Tasks :
        \/ download_save_enter(t) /\ Scripted'
        \/ download_save_request(t) /\ Scripted'
        \/ download_save_open(t) /\ Scripted'
        \/ download_save_write(t) /\ Scripted'
        \/ download_save_retry(t) /\ Scripted'
        \/ download_save_retry_open(t) /\ Scripted'
        \/ download_save_retry_write(t) /\ Scripted'
    \/ ParallelDownload

SpecScripted == InitScripted /\ [][NextScripted]_vars

\* ---------------------------------------------------------- save_features
StageOutcomes == {"ok", "extract_fail", "open_fail", "dump_fail"}

\* pickle.dump(data, open(fname, 'wb')) on the opened file. The file object is
\* never closed by the code: its destructor closes it when pickle.dump
\* returns, and a flush that fails there ("close_fail") raises nothing.
DumpOutcomes == {"ok", "dump_fail", "close_fail"}

\* pickle_data: pickle.dump(data, open(fname, 'wb')), as a whole. A failed
\* open leaves the file as it was; a dump that fails leaves the file open()
\* created, and so does a dump whose buffered data is lost at the close. A
\* file that another call completed since the open stays complete: the bytes
\* a failing dump writes, from offset 0, are a prefix of the same content.
pickle_data(f, outcome) ==
    CASE outcome = "open_fail" -> f
      [] outcome \in {"dump_fail", "close_fail"} ->
            IF f = "complete" THEN "complete" ELSE "partial"
      [] outcome = "ok" -> "complete"

\* Rows of recording_df, up to the naming of the ids: row t holds one of the
\* ids 1..t (two rows may hold the same id).
Recordings == {r \in [Tasks -> Ids] : \A t \in Tasks : r[t] <= t}

InitFeatures ==
    /\ DownloadIdle
    /\ recording \in Recordings
    /\ spectral = [id \in Ids |-> "absent"]
    /\ chroma = [id \in Ids |-> "absent"]
    /\ swrites = [id \in Ids |-> 0]
    /\ cwrites = [id \in Ids |-> 0]
    /\ fpc = NoTasks
    /\ result = [t \in Tasks |-> 1]
    /\ flog = [t \in Tasks |-> NoLog]
    /\ after = [t \in Tasks |-> FALSE]
    /\ fres = [t \in Tasks |-> Pending]
    /\ succeeded = {}
    /\ printed = <<>>
    /\ run = 1
    /\ job = "running"
    /\ results = <<>>
    /\ OthersIdle

\* return result
FReturn(t, v) ==
    /\ fpc' = [fpc EXCEPT ![t] = "done"]
    /\ result' = [result EXCEPT ![t] = v]
    /\ fres' = [fres EXCEPT ![t] = ReturnInt(v)]
    /\ succeeded' = IF v = 1 THEN succeeded \cup {recording[t]} ELSE succeeded

\* save_features_enter without the early return.
save_features_enter_noreturn(t) ==
    /\ job = "running" /\ fpc[t] = "start"
    /\ after' = [after EXCEPT ![t] = recording[t] \in succeeded]
    /\ fpc' = [fpc EXCEPT ![t] = "load"]
    /\ result' = [result EXCEPT ![t] = 1]
    /\ UNCHANGED <<ovars, dvars, recording, spectral, chroma, swrites, cwrites, flog,
                   fres, succeeded, printed, run, job, results>>

\* result = 1, and the early return when both files exist.
save_features_enter(t) ==
    /\ job = "running" /\ fpc[t] = "start"
    /\ after' = [after EXCEPT ![t] = recording[t] \in succeeded]
    /\ IF exists(spectral[recording[t]]) /\ exists(chroma[recording[t]])
       THEN FReturn(t, 1)
       ELSE /\ fpc' = [fpc EXCEPT ![t] = "load"]
            /\ result' = [result EXCEPT ![t] = 1]
            /\ UNCHANGED <<fres, succeeded>>
    /\ UNCHANGED <<ovars, dvars, recording, spectral, chroma, swrites, cwrites, flog,
                   printed, run, job, results>>

\* save_features_load without the outer except: a failed load propagates.
save_features_load_uncaught(t) ==
    /\ job = "running" /\ fpc[t] = "load"
    /\ \E o \in {"ok", "fail"} :
        /\ flog' = [flog EXCEPT ![t].load = o]
        /\ IF o = "ok"
           THEN /\ fpc' = [fpc EXCEPT ![t] = "spectral_check"]
                /\ fres' = fres
           ELSE /\ fpc' = [fpc EXCEPT ![t] = "done"]
                /\ fres' = [fres EXCEPT ![t] = Raised]
    /\ UNCHANGED <<ovars, dvars, recording, spectral, chroma, swrites, cwrites, result,
                   after, succeeded, printed, run, job, results>>

\* y, sr = librosa.load(fname, duration=duration); the outer except gives -3.
save_features_load(t) ==
    /\ job = "running" /\ fpc[t] = "load"
    /\ \E o \in {"ok", "fail"} :
        /\ flog' = [flog EXCEPT ![t].load = o]
        /\ IF o = "ok"
           THEN /\ fpc' = [fpc EXCEPT ![t] = "spectral_check"]
                /\ UNCHANGED <<result, fres, succeeded>>
           ELSE FReturn(t, -3)
    /\ UNCHANGED <<ovars, dvars, recording, spectral, chroma, swrites, cwrites, after,
                   printed, run, job, results>>

\* save_features_spectral_check that runs the spectral stage whether or not the
\* file exists.
save_features_spectral_check_always(t) ==
    /\ job = "running" /\ fpc[t] = "spectral_check"
    /\ fpc' = [fpc EXCEPT ![t] = "spectral"]
    /\ UNCHANGED <<ovars, dvars, recording, spectral, chroma, swrites, cwrites, result,
                   flog, after, fres, succeeded, printed, run, job, results>>

\* if os.path.exists(sname) is False:
save_features_spectral_check(t) ==
    /\ job = "running" /\ fpc[t] = "spectral_check"
    /\ IF exists(spectral[recording[t]])
       THEN /\ fpc' = [fpc EXCEPT ![t] = "chroma_check"]
            /\ flog' = [flog EXCEPT ![t].s = "skipped"]
       ELSE /\ fpc' = [fpc EXCEPT ![t] = "spectral"]
            /\ flog' = flog
    /\ UNCHANGED <<ovars, dvars, recording, spectral, chroma, swrites, cwrites, result,
                   after, fres, succeeded, printed, run, job, results>>

\* save_features_spectral that checks for the file again before it works, and
\* skips the stage when another call has created the file meanwhile.
save_features_spectral_recheck(t) ==
    /\ job = "running" /\ fpc[t] = "spectral"
    /\ IF exists(spectral[recording[t]])
       THEN /\ flog' = [flog EXCEPT ![t].s = "skipped"]
            /\ UNCHANGED <<spectral, swrites, result>>
            /\ fpc' = [fpc EXCEPT ![t] = "chroma_check"]
       ELSE \E o \in StageOutcomes \ {"dump_fail"} :
            IF o = "ok"
            THEN /\ spectral' = [spectral EXCEPT ![recording[t]] = opened(@, o)]
                 /\ swrites' = [swrites EXCEPT ![recording[t]] = @ + 1]
                 /\ flog' = [flog EXCEPT ![t].s = "opened"]
                 /\ fpc' = [fpc EXCEPT ![t] = "spectral_dump"]
                 /\ result' = result
            ELSE /\ flog' = [flog EXCEPT ![t].s = o]
                 /\ result' = [result EXCEPT ![t] = -1]
                 /\ fpc' = [fpc EXCEPT ![t] = "chroma_check"]
                 /\ UNCHANGED <<spectral, swrites>>
    /\ UNCHANGED <<ovars, dvars, recording, chroma, cwrites, after, fres, succeeded,
                   printed, run, job, results>>

\* save_features_spectral whose except leaves the call with -1 at once.
save_features_spectral_return(t) ==
    /\ job = "running" /\ fpc[t] = "spectral"
    /\ \E o \in StageOutcomes \ {"dump_fail"} :
        IF o = "ok"
        THEN /\ spectral' = [spectral EXCEPT ![recording[t]] = opened(@, o)]
             /\ swrites' = [swrites EXCEPT ![recording[t]] = @ + 1]
             /\ flog' = [flog EXCEPT ![t].s = "opened"]
             /\ fpc' = [fpc EXCEPT ![t] = "spectral_dump"]
             /\ UNCHANGED <<result, fres, succeeded>>
        ELSE /\ flog' = [flog EXCEPT ![t].s = o]
             /\ FReturn(t, -1)
             /\ UNCHANGED <<spectral, swrites>>
    /\ UNCHANGED <<ovars, dvars, recording, chroma, cwrites, after, printed, run,
                   job, results>>

\* get_spectral_features and the open(sname, 'wb') of pickle_data: the file
\* exists, empty, from here on; an exception of either gives -1.
save_features_spectral(t) ==
    /\ job = "running" /\ fpc[t] = "spectral"
    /\ \E o \in StageOutcomes \ {"dump_fail"} :
        IF o = "ok"
        THEN /\ spectral' = [spectral EXCEPT ![recording[t]] = opened(@, o)]
             /\ swrites' = [swrites EXCEPT ![recording[t]] = @ + 1]
             /\ flog' = [flog EXCEPT ![t].s = "opened"]
             /\ fpc' = [fpc EXCEPT ![t] = "spectral_dump"]
             /\ result' = result
        ELSE /\ flog' = [flog EXCEPT ![t].s = o]
             /\ result' = [result EXCEPT ![t] = -1]
             /\ fpc' = [fpc EXCEPT ![t] = "chroma_check"]
             /\ UNCHANGED <<spectral, swrites>>
    /\ UNCHANGED <<ovars, dvars, recording, chroma, cwrites, after, fres, succeeded,
                   printed, run, job, results>>

\* pickle.dump into the opened spectral file; an exception gives -1 and
\* leaves the file as far as it was written; a failure at the implicit close
\* is not an exception and leaves result as it is.
save_features_spectral_dump(t) ==
    /\ job = "running" /\ fpc[t] = "spectral_dump"
    /\ \E o \in DumpOutcomes :
        /\ flog' = [flog EXCEPT ![t].s = o]
        /\ spectral' = [spectral EXCEPT ![recording[t]] = pickle_data(@, o)]
        /\ result' = [result EXCEPT ![t] = IF o = "dump_fail" THEN -1 ELSE @]
    /\ fpc' = [fpc EXCEPT ![t] = "chroma_check"]
    /\ UNCHANGED <<ovars, dvars, recording, chroma, swrites, cwrites, after, fres,
                   succeeded, printed, run, job, results>>

\* if os.path.exists(cname) is False:  (else the call returns result)
save_features_chroma_check(t) ==
    /\ job = "running" /\ fpc[t] = "chroma_check"
    /\ IF exists(chroma[recording[t]])
       THEN /\ FReturn(t, result[t])
            /\ flog' = [flog EXCEPT ![t].c = "skipped"]
       ELSE /\ fpc' = [fpc EXCEPT ![t] = "chroma"]
            /\ UNCHANGED <<result, fres, succeeded, flog>>
    /\ UNCHANGED <<ovars, dvars, recording, spectral, chroma, swrites, cwrites, after,
                   printed, run, job, results>>

\* save_features_chroma whose except passes instead of assigning -2.
save_features_chroma_pass(t) ==
    /\ job = "running" /\ fpc[t] = "chroma"
    /\ \E o \in StageOutcomes \ {"dump_fail"} :
        IF o = "ok"
        THEN /\ chroma' = [chroma EXCEPT ![recording[t]] = opened(@, o)]
             /\ cwrites' = [cwrites EXCEPT ![recording[t]] = @ + 1]
             /\ flog' = [flog EXCEPT ![t].c = "opened"]
             /\ fpc' = [fpc EXCEPT ![t] = "chroma_dump"]
             /\ UNCHANGED <<result, fres, succeeded>>
        ELSE /\ flog' = [flog EXCEPT ![t].c = o]
             /\ FReturn(t, result[t])
             /\ UNCHANGED <<chroma, cwrites>>
    /\ UNCHANGED <<ovars, dvars, recording, spectral, swrites, after, printed, run, job,
                   results>>

\* get_chroma_features and the open(cname, 'wb') of pickle_data; an exception
\* of either gives -2, and the call returns.
save_features_chroma(t) ==
    /\ job = "running" /\ fpc[t] = "chroma"
    /\ \E o \in StageOutcomes \ {"dump_fail"} :
        IF o = "ok"
        THEN /\ chroma' = [chroma EXCEPT ![recording[t]] = opened(@, o)]
             /\ cwrites' = [cwrites EXCEPT ![recording[t]] = @ + 1]
             /\ flog' = [flog EXCEPT ![t].c = "opened"]
             /\ fpc' = [fpc EXCEPT ![t] = "chroma_dump"]
             /\ UNCHANGED <<result, fres, succeeded>>
        ELSE /\ flog' = [flog EXCEPT ![t].c = o]
             /\ FReturn(t, -2)
             /\ UNCHANGED <<chroma, cwrites>>
    /\ UNCHANGED <<ovars, dvars, recording, spectral, swrites, after, printed, run, job,
                   results>>

\* pickle.dump into the opened chroma file; an exception gives -2, a failure
\* at the implicit close none; then return result.
save_features_chroma_dump(t) ==
    /\ job = "running" /\ fpc[t] = "chroma_dump"
    /\ \E o \in DumpOutcomes :
        /\ flog' = [flog EXCEPT ![t].c = o]
        /\ chroma' = [chroma EXCEPT ![recording[t]] = pickle_data(@, o)]
        /\ FReturn(t, IF o = "dump_fail" THEN -2 ELSE result[t])
    /\ UNCHANGED <<ovars, dvars, recording, spectral, swrites, cwrites, after, printed,
                   run, job, results>>

save_features(t) ==
    \/ save_features_enter(t)
    \/ save_features_load(t)
    \/ save_features_spectral_check(t)
    \/ save_features_spectral(t)
    \/ save_features_spectral_dump(t)
    \/ save_features_chroma_check(t)
    \/ save_features_chroma(t)
    \/ save_features_chroma_dump(t)

\* results = Parallel(n_jobs=-1)(delayed(save_features)(r['id'], r['mp3']) ...)
ParallelFeatures ==
    /\ Parallel(fres)
    /\ UNCHANGED <<ovars, dvars, fvars>>

\* np.sum(results)
RECURSIVE np_sum(_)
np_sum(xs) == IF xs = <<>> THEN 0 ELSE Head(xs).val + np_sum(Tail(xs))

\* print('{} files processed'.format(np.sum(results)))
PrintSummary ==
    /\ job = "finished" /\ printed = <<>>
    /\ printed' = <<np_sum(results)>>
    /\ UNCHANGED <<ovars, dvars, recording, spectral, chroma, swrites, cwrites, fpc,
                   result, flog, after, fres, succeeded, run, job, results>>

\* The notebook is executed again over the same rows and the same files.
RerunFeatures ==
    /\ job = "finished" /\ printed # <<>> /\ run < MaxRuns
    /\ run' = run + 1
    /\ fpc' = NoTasks
    /\ result' = [t \in Tasks |-> 1]
    /\ flog' = [t \in Tasks |-> NoLog]
    /\ after' = [t \in Tasks |-> FALSE]
    /\ fres' = [t \in Tasks |-> Pending]
    /\ printed' = <<>>
    /\ job' = "running"
    /\ results' = <<>>
    /\ UNCHANGED <<ovars, dvars, recording, spectral, chroma, swrites, cwrites, succeeded>>

\* The parallel job: the calls interleave at their file accesses.
NextFeatures ==
    \/ \E t \in Tasks : save_features(t)
    \/ ParallelFeatures
    \/ PrintSummary

SpecFeatures == InitFeatures /\ [][NextFeatures]_vars

\* One call after the other (a single worker), and re-runs of the notebook.
NextSequential ==
    \/ \E t \in Tasks :
        /\ \A u \in 1..(t - 1) : fpc[u] = "done"
        /\ save_features(t)
    \/ ParallelFeatures
    \/ PrintSummary
    \/ RerunFeatures

SpecSequential == InitFeatures /\ [][NextSequential]_vars

\* ------------------------------------------- get_recording_download_infos
\* The identifiers and items the API's pages can hold; one id is a prefix of
\* another, and the same recording can be served on two pages.
ItemIds == {<<"1">>, <<"1", "2">>, <<"2">>}
Items == {[id |-> i, file |-> <<"/", "/", "x", "/">> \o i] : i \in ItemIds}

SeqsUpTo(S, n) == UNION {[1..k -> S] : k \in 0..n}

Pages == {[recordings |-> r] : r \in SeqsUpTo(Items, MaxRecs)}

\* get_recording_download_infos that keeps the infos of the last page only
\* (recordings = download_infos in place of recordings.extend).
RECURSIVE get_recording_download_infos_assign(_, _)
get_recording_download_infos_assign(pages, recordings) ==
    IF pages = <<>>
    THEN recordings
    ELSE LET data == Head(pages)
             download_infos == [k \in 1..Len(data.recordings) |->
                                   get_recording_download_info(data.recordings[k])]
         IN get_recording_download_infos_assign(Tail(pages), download_infos)

\* The loop of get_recording_download_infos over the remaining pages, with
\* the list recordings built so far.
RECURSIVE get_recording_download_infos_loop(_, _)
get_recording_download_infos_loop(pages, recordings) ==
    IF pages = <<>>
    THEN recordings
    ELSE LET data == Head(pages)
             download_infos == [k \in 1..Len(data.recordings) |->
                                   get_recording_download_info(data.recordings[k])]
         IN get_recording_download_infos_loop(Tail(pages),
                                              recordings \o download_infos)

get_recording_download_infos(pages) ==
    get_recording_download_infos_loop(pages, <<>>)

InitInfos ==
    /\ dataset \in SeqsUpTo(Pages, MaxPages)
    /\ cell = "dataset"
    /\ PagesIdle
    /\ ScriptIdle
    /\ GdIdle
    /\ SampleIdle
    /\ RsquareIdle
    /\ DownloadIdle
    /\ FeaturesIdle
    /\ job = "none"
    /\ results = <<>>

\* download_info = get_recording_download_infos(dataset)
DownloadInfoCell ==
    /\ cell = "dataset"
    /\ download_info' = get_recording_download_infos(dataset)
    /\ cell' = "download_info"
    /\ UNCHANGED <<gvars, svars, rvars, pvars, dataset, script, mp3_0, cached, mp3, dpc, requested, errtext, wrote, dres,
                   fvars, job, results>>

NextInfos == DownloadInfoCell

SpecInfos == InitInfos /\ [][NextInfos]_vars

\* ------------------------------------------------------------ result pages
\* download-json.ipynb asks the API for the first page, reads numPages from
\* it, fetches the pages 2..num_pages into dataset and saves every entry as
\* ./json/<k>.json.  The later version of the notebook has one loop that
\* loads a page from ./json/<k>.json when the file exists and fetches and
\* saves it otherwise.

\* The object the API answers for page k of a query that has n pages.
Page(k, n) == [page |-> k, numPages |-> n]

\* json.dumps: the text of an object.
json_dumps(obj) == <<"{", Digits[obj.page], ",", Digits[obj.numPages], "}">>

IsDigit(c) == \E v \in 1..Len(Digits) : Digits[v] = c
DigitValue(c) == CHOOSE v \in 1..Len(Digits) : Digits[v] = c

\* json.loads / json.load raise ValueError on a text that is no JSON document.
IsJson(text) ==
    /\ Len(text) = 5
    /\ text[1] = "{" /\ text[3] = "," /\ text[5] = "}"
    /\ IsDigit(text[2]) /\ IsDigit(text[4])

json_loads(text) == Page(DigitValue(text[2]), DigitValue(text[4]))

\* content of h.request(url, 'GET') for page k.
h_request(k) == json_dumps(Page(k, site))

PageOutcomes == {"ok", "error"}

\* A file of ./json: absent, or present with a text.
NoFile == <<>>
FileWith(text) == <<text>>
json_exists(f) == f # NoFile

\* with open(fname, 'wb') as f: f.write(text)
write_text(f, text, outcome) ==
    CASE outcome = "open_fail" -> f
      [] outcome = "write_fail" -> FileWith(<<>>)
      [] outcome = "ok" -> FileWith(text)

PagesStart ==
    /\ site \in 1..MaxPages
    /\ page_data = <<>>
    /\ num_pages = 0
    /\ loop_i = 0
    /\ page_requests = <<>>
    /\ json_dir \in [1..MaxPages -> {NoFile, FileWith(<<>>)}
                                     \cup {FileWith(h_request(k)) : k \in 1..MaxPages}]
    /\ \A k \in 1..MaxPages :
          json_dir[k] \in {NoFile, FileWith(<<>>), FileWith(h_request(k))}
    /\ fetched = <<>>
    /\ prun = 1
    /\ dataset = <<>>
    /\ cell = "pages"
    /\ ScriptIdle
    /\ GdIdle
    /\ SampleIdle
    /\ RsquareIdle
    /\ DownloadIdle
    /\ FeaturesIdle
    /\ job = "none"
    /\ results = <<>>

InitPages ==
    /\ PagesStart
    /\ ppc = "start"
    /\ global_d = <<>>

PagesFrame ==
    UNCHANGED <<dvars, fvars, job, results, script, mp3_0, cell, gvars, svars,
                rvars, site, fetched, prun>>

\* url = ...; response, content = h.request(url, 'GET'); data = json.loads(content)
first_request ==
    /\ ppc = "start"
    /\ page_requests' = Append(page_requests, 1)
    /\ \E o \in PageOutcomes :
        IF o = "ok"
        THEN /\ page_data' = <<json_loads(h_request(1))>>
             /\ ppc' = "data"
        ELSE /\ ppc' = "raised"
             /\ page_data' = page_data
    /\ UNCHANGED <<num_pages, loop_i, json_dir, global_d, dataset>>
    /\ PagesFrame

\* num_pages = data['numPages']
num_pages_cell ==
    /\ ppc = "data"
    /\ num_pages' = page_data[1].numPages
    /\ ppc' = "num_pages"
    /\ UNCHANGED <<page_data, loop_i, page_requests, json_dir, global_d, dataset>>
    /\ PagesFrame

\* dataset_cell that starts from the empty list.
dataset_cell_empty ==
    /\ ppc = "num_pages"
    /\ dataset' = <<>>
    /\ loop_i' = 2
    /\ ppc' = "pages"
    /\ UNCHANGED <<page_data, num_pages, page_requests, json_dir, global_d>>
    /\ PagesFrame

\* dataset = [data]; the page loop then starts at range(2, num_pages + 1).
dataset_cell ==
    /\ ppc = "num_pages"
    /\ dataset' = <<page_data[1]>>
    /\ loop_i' = 2
    /\ ppc' = "pages"
    /\ UNCHANGED <<page_data, num_pages, page_requests, json_dir, global_d>>
    /\ PagesFrame

\* One iteration of for i in range(2, num_pages + 1): request page i and
\* append the parsed content.
page_loop_iteration ==
    /\ ppc = "pages" /\ loop_i <= num_pages
    /\ page_requests' = Append(page_requests, loop_i)
    /\ \E o \in PageOutcomes :
        IF o = "ok"
        THEN /\ dataset' = Append(dataset, json_loads(h_request(loop_i)))
             /\ loop_i' = loop_i + 1
             /\ ppc' = ppc
        ELSE /\ ppc' = "raised"
             /\ UNCHANGED <<dataset, loop_i>>
    /\ UNCHANGED <<page_data, num_pages, json_dir, global_d>>
    /\ PagesFrame

\* The range is exhausted; the save loop starts with enumerate's index 0.
page_loop_end ==
    /\ ppc = "pages" /\ loop_i > num_pages
    /\ ppc' = "save"
    /\ loop_i' = 0
    /\ UNCHANGED <<page_data, num_pages, page_requests, json_dir, global_d, dataset>>
    /\ PagesFrame

\* One iteration of for i, d in enumerate(dataset): write json.dumps(d) to
\* './json/{}.json'.format(i+1).
save_loop_iteration ==
    /\ ppc = "save" /\ loop_i < Len(dataset)
    /\ global_d' = <<dataset[loop_i + 1]>>
    /\ \E o \in WriteOutcomes :
        /\ json_dir' = [json_dir EXCEPT ![loop_i + 1] =
                           write_text(@, json_dumps(dataset[loop_i + 1]), o)]
        /\ IF o = "ok"
           THEN loop_i' = loop_i + 1 /\ ppc' = ppc
           ELSE loop_i' = loop_i /\ ppc' = "raised"
    /\ UNCHANGED <<page_data, num_pages, page_requests, dataset>>
    /\ PagesFrame

save_loop_end ==
    /\ ppc = "save" /\ loop_i = Len(dataset)
    /\ ppc' = "saved"
    /\ UNCHANGED <<page_data, num_pages, loop_i, page_requests, json_dir, global_d,
                   dataset>>
    /\ PagesFrame

NextPages ==
    \/ first_request
    \/ num_pages_cell
    \/ dataset_cell
    \/ page_loop_iteration
    \/ page_loop_end
    \/ save_loop_iteration
    \/ save_loop_end

SpecPages == InitPages /\ [][NextPages]_vars

\* The later version of the notebook.  Its loop writes json.dumps(d, f): d is
\* assigned nowhere in that notebook, so it is undefined in a fresh kernel and
\* otherwise whatever an earlier session left in the kernel's globals.
InitCachedPages ==
    /\ PagesStart
    /\ ppc = "cached start"
    /\ global_d \in {<<>>} \cup {<<Page(k, site)>> : k \in 1..site}

CachedFrame ==
    UNCHANGED <<dvars, fvars, job, results, script, mp3_0, cell, gvars, svars,
                rvars, site, global_d>>

\* The first request of the later version; num_pages is read in the same cell.
cached_first_request ==
    /\ ppc = "cached start"
    /\ page_requests' = Append(page_requests, 1)
    /\ \E o \in PageOutcomes :
        IF o = "ok"
        THEN /\ page_data' = <<json_loads(h_request(1))>>
             /\ num_pages' = json_loads(h_request(1)).numPages
             /\ ppc' = "cached num_pages"
        ELSE /\ ppc' = "cached raised"
             /\ UNCHANGED <<page_data, num_pages>>
    /\ UNCHANGED <<loop_i, json_dir, dataset, fetched, prun>>
    /\ CachedFrame

\* dataset = []; the loop starts at range(1, num_pages + 1).
cached_loop_start ==
    /\ ppc = "cached num_pages"
    /\ dataset' = <<>>
    /\ loop_i' = 1
    /\ ppc' = "cached pages"
    /\ UNCHANGED <<page_data, num_pages, page_requests, json_dir, fetched, prun>>
    /\ CachedFrame

\* One iteration: load the page from its file if the file exists, else
\* request it, write json.dumps(d, f) to the file and append the parsed
\* content.
cached_loop_iteration ==
    /\ ppc = "cached pages" /\ loop_i <= num_pages
    /\ IF json_exists(json_dir[loop_i])
       THEN /\ IF IsJson(json_dir[loop_i][1])
               THEN /\ dataset' = Append(dataset, json_loads(json_dir[loop_i][1]))
                    /\ loop_i' = loop_i + 1
                    /\ ppc' = ppc
               ELSE /\ ppc' = "cached raised"
                    /\ UNCHANGED <<dataset, loop_i>>
            /\ UNCHANGED <<page_requests, json_dir>>
       ELSE /\ page_requests' = Append(page_requests, loop_i)
            /\ \E o \in PageOutcomes :
                IF o = "error"
                THEN /\ ppc' = "cached raised"
                     /\ UNCHANGED <<dataset, loop_i, json_dir>>
                ELSE \E w \in WriteOutcomes :
                    IF w = "open_fail"
                    THEN /\ ppc' = "cached raised"
                         /\ UNCHANGED <<dataset, loop_i, json_dir>>
                    ELSE IF global_d = <<>>
                    THEN /\ json_dir' = [json_dir EXCEPT ![loop_i] = FileWith(<<>>)]
                         /\ ppc' = "cached raised"
                         /\ UNCHANGED <<dataset, loop_i>>
                    ELSE /\ json_dir' = [json_dir EXCEPT ![loop_i] =
                                            write_text(@, json_dumps(global_d[1]), w)]
                         /\ IF w = "ok"
                            THEN /\ dataset' =
                                      Append(dataset, json_loads(h_request(loop_i)))
                                 /\ loop_i' = loop_i + 1
                                 /\ ppc' = ppc
                            ELSE /\ ppc' = "cached raised"
                                 /\ UNCHANGED <<dataset, loop_i>>
    /\ UNCHANGED <<page_data, num_pages, fetched, prun>>
    /\ CachedFrame

\* The range is exhausted: print('{} pages of data'.format(len(dataset))).
cached_loop_end ==
    /\ ppc = "cached pages" /\ loop_i > num_pages
    /\ ppc' = "cached done"
    /\ fetched' = <<dataset>>
    /\ UNCHANGED <<page_data, num_pages, loop_i, page_requests, json_dir, dataset,
                   prun>>
    /\ CachedFrame

\* The notebook is run again in the same kernel.
cached_rerun ==
    /\ ppc \in {"cached done", "cached raised"}
    /\ prun < MaxRuns
    /\ prun' = prun + 1
    /\ ppc' = "cached start"
    /\ UNCHANGED <<page_data, num_pages, loop_i, page_requests, json_dir, dataset,
                   fetched>>
    /\ CachedFrame

NextCachedPages ==
    \/ cached_first_request
    \/ cached_loop_start
    \/ cached_loop_iteration
    \/ cached_loop_end
    \/ cached_rerun

SpecCachedPages == InitCachedPages /\ [][NextCachedPages]_vars

\* -------------------------------------------------------- gradient descent
\* Numbers are exact fractions <<numerator, denominator>> in lowest terms
\* with a positive denominator.
Abs(n) == IF n < 0 THEN -n ELSE n

RECURSIVE GCD(_, _)
GCD(a, b) == IF b = 0 THEN a ELSE GCD(b, a % b)

Rat(n, d) == LET g == GCD(Abs(n), d) IN <<n \div g, d \div g>>
Num(n) == <<n, 1>>
RNeg(p) == <<-p[1], p[2]>>
RAdd(p, q) ==
    LET l == (p[2] \div GCD(p[2], q[2])) * q[2]
    IN Rat(p[1] * (l \div p[2]) + q[1] * (l \div q[2]), l)
RSub(p, q) == RAdd(p, RNeg(q))
RMul(p, q) ==
    LET g1 == GCD(Abs(p[1]), q[2])
        g2 == GCD(Abs(q[1]), p[2])
    IN Rat((p[1] \div g1) * (q[1] \div g2), (p[2] \div g2) * (q[2] \div g1))

\* alpha = 0.01
alpha == <<1, 100>>

BatchIterations == 10000
StochasticEpochs == 2000
AutogradIterations == 1000

\* The rows the data can hold, and the weights np.random.randn() can draw.
DataPoints == {<<1, 0>>, <<1, 2>>, <<2, 3>>}
InitWeights == {<<Num(0), Num(0)>>, <<Num(1), Num(-1)>>}

\* y - (b + w * x)
residual(x, y, b, w) == RSub(Num(y), RAdd(b, RMul(w, Num(x))))

\* The loop of batch_step over the rows i..N with the sums b_grad and w_grad
\* accumulated so far.
RECURSIVE batch_step_loop(_, _, _, _, _, _)
batch_step_loop(data, b, w, i, b_grad, w_grad) ==
    IF i > Len(data)
    THEN <<b_grad, w_grad>>
    ELSE LET N == Len(data)
             x == data[i][1]
             y == data[i][2]
         IN batch_step_loop(data, b, w, i + 1,
                RAdd(b_grad, RMul(RNeg(Rat(2, N)), residual(x, y, b, w))),
                RAdd(w_grad, RMul(RMul(RNeg(Rat(2, N)), Num(x)),
                                  residual(x, y, b, w))))

\* batch_step that applies the new b before it accumulates the gradient of w.
batch_step_in_place(data, b, w, a) ==
    LET b_grad == batch_step_loop(data, b, w, 1, Num(0), Num(0))[1]
        b_new == RSub(b, RMul(a, b_grad))
        w_grad == batch_step_loop(data, b_new, w, 1, Num(0), Num(0))[2]
    IN <<b_new, RSub(w, RMul(a, w_grad))>>

batch_step(data, b, w, a) ==
    LET grads == batch_step_loop(data, b, w, 1, Num(0), Num(0))
        b_new == RSub(b, RMul(a, grads[1]))
        w_new == RSub(w, RMul(a, grads[2]))
    IN <<b_new, w_new>>

\* The rows of the data rebuilt for the multiple regression: x0..x4 and y.
MultiDataPoints ==
    {<<1, 0, 0, 0, 0, 0>>, <<1, 0, 0, 0, 1, 2>>, <<0, 1, 0, 0, 2, 1>>}

\* np.array / np.zeros: an array holds its elements, computed once.
np_array(f) == SubSeq(f, 1, Len(f))

\* w.dot(x) over the columns j..num_x.
RECURSIVE w_dot(_, _, _)
w_dot(w, x, j) ==
    IF j > Len(w) THEN Num(0) ELSE RAdd(RMul(w[j], Num(x[j])), w_dot(w, x, j + 1))

\* y - (b + w.dot(x)) for a row of the data
multi_residual(row, b, w) ==
    RSub(Num(row[Len(row)]), RAdd(b, w_dot(w, row, 1)))

\* The loop of multi_batch_step over the rows i..N with b_grad and the vector
\* w_grad accumulated so far.
RECURSIVE multi_batch_step_loop(_, _, _, _, _, _)
multi_batch_step_loop(data, b, w, i, b_grad, w_grad) ==
    IF i > Len(data)
    THEN <<b_grad, w_grad>>
    ELSE LET N == Len(data)
             r == multi_residual(data[i], b, w)
         IN multi_batch_step_loop(data, b, w, i + 1,
                RAdd(b_grad, RMul(RNeg(Rat(2, N)), r)),
                np_array([j \in 1..Len(w_grad) |->
                    RAdd(w_grad[j],
                         RMul(RMul(RNeg(Rat(2, N)), Num(data[i][j])), r))]))

multi_batch_step(data, b, w, a) ==
    LET num_x == Len(data[1]) - 1
        grads == multi_batch_step_loop(data, b, w, 1, Num(0),
                                       np_array([j \in 1..num_x |-> Num(0)]))
        b_new == RSub(b, RMul(a, grads[1]))
        w_new == np_array([j \in 1..num_x |-> RSub(w[j], RMul(a, grads[2][j]))])
    IN <<b_new, w_new>>

stochastic_step(x, y, b, w, N, a) ==
    LET b_grad == RMul(RNeg(Rat(2, N)), residual(x, y, b, w))
        w_grad == RMul(RMul(RNeg(Rat(2, N)), Num(x)), residual(x, y, b, w))
        b_new == RSub(b, RMul(a, b_grad))
        w_new == RSub(w, RMul(a, w_grad))
    IN <<b_new, w_new>>

\* loss_grad = grad(loss) for X = [1, x]: the gradient of the mean of
\* (np.dot(X, w) - y_true) ** 2 with respect to w[0] and w[1].
RECURSIVE loss_grad_loop(_, _, _, _, _)
loss_grad_loop(w, data, i, g0, g1) ==
    IF i > Len(data)
    THEN <<g0, g1>>
    ELSE LET n == Len(data)
             x == data[i][1]
             y == data[i][2]
             d == RSub(RAdd(w[1], RMul(w[2], Num(x))), Num(y))
         IN loss_grad_loop(w, data, i + 1,
                RAdd(g0, RMul(Rat(2, n), d)),
                RAdd(g1, RMul(RMul(Rat(2, n), d), Num(x))))

loss_grad(w, data) == loss_grad_loop(w, data, 1, Num(0), Num(0))

Shuffles(n) ==
    {f \in [1..n -> 1..n] : \A i \in 1..n : \A j \in 1..n : f[i] = f[j] => i = j}

\* The data is fitted exactly by the parameters: every update leaves them as
\* they are, and the numbers do not grow however long the loop runs.
Fitted ==
    \A i \in 1..Len(gd_data) :
        residual(gd_data[i][1], gd_data[i][2], gd_b, gd_w) = Num(0)

\* The same for the multiple regression.
MultiFitted ==
    \A i \in 1..Len(gd_data) : multi_residual(gd_data[i], gd_b, gd_w) = Num(0)

InitGradientDescent ==
    /\ gd_loop \in {"batch", "stochastic", "autograd", "multi_batch"}
    /\ IF gd_loop = "multi_batch"
       THEN /\ gd_data \in [1..NumPoints -> MultiDataPoints]
            /\ gd_b = Num(0)
            /\ gd_w = np_array([j \in 1..(Len(gd_data[1]) - 1) |-> Num(0)])
       ELSE /\ gd_data \in [1..NumPoints -> DataPoints]
            /\ \E w0 \in InitWeights :
                /\ gd_loop # "autograd" => w0 = <<Num(0), Num(0)>>
                /\ gd_b = w0[1]
                /\ gd_w = w0[2]
    /\ gd_i = 0
    /\ gd_pc = "loop"
    /\ gd_indices = <<>>
    /\ gd_used = <<>>
    /\ gd_last = <<>>
    /\ gd_updates = 0
    /\ cell = "gradient descent"
    /\ SampleIdle
    /\ RsquareIdle
    /\ ScriptIdle
    /\ InfosIdle
    /\ PagesIdle
    /\ DownloadIdle
    /\ FeaturesIdle
    /\ job = "none"
    /\ results = <<>>

GdFrame ==
    UNCHANGED <<dvars, fvars, job, results, script, mp3_0, cell, dataset, svars,
                rvars, pvars>>

Update(j, new) ==
    /\ gd_b' = new[1]
    /\ gd_w' = new[2]
    /\ gd_last' = <<[row |-> j, given |-> <<gd_b, gd_w>>, returned |-> new]>>
    /\ gd_updates' = gd_updates + 1

\* A batch iteration that leaves the loop once the parameters stop changing.
batch_iteration_until_convergence ==
    /\ gd_loop = "batch" /\ gd_pc = "loop"
    /\ gd_i < BatchIterations
    /\ gd_updates < MaxUpdates \/ Fitted
    /\ LET new == batch_step(gd_data, gd_b, gd_w, alpha)
       IN /\ Update(0, new)
          /\ gd_pc' = IF new = <<gd_b, gd_w>> THEN "done" ELSE "loop"
    /\ gd_i' = gd_i + 1
    /\ UNCHANGED <<gd_loop, gd_data, gd_indices, gd_used>>
    /\ GdFrame

\* One iteration of for i in range(10000): b, w = batch_step(data, b, w).
batch_iteration ==
    /\ gd_loop = "batch" /\ gd_pc = "loop"
    /\ gd_i < BatchIterations
    /\ gd_updates < MaxUpdates \/ Fitted
    /\ Update(0, batch_step(gd_data, gd_b, gd_w, alpha))
    /\ gd_i' = gd_i + 1
    /\ UNCHANGED <<gd_loop, gd_data, gd_pc, gd_indices, gd_used>>
    /\ GdFrame

\* One iteration of for i in range(10000): b, w = multi_batch_step(data, b, w).
multi_batch_iteration ==
    /\ gd_loop = "multi_batch" /\ gd_pc = "loop"
    /\ gd_i < BatchIterations
    /\ gd_updates < MaxUpdates \/ MultiFitted
    /\ Update(0, multi_batch_step(gd_data, gd_b, gd_w, alpha))
    /\ gd_i' = gd_i + 1
    /\ UNCHANGED <<gd_loop, gd_data, gd_pc, gd_indices, gd_used>>
    /\ GdFrame

\* Start of an epoch: indices = list(range(N)); shuffle(indices).
stochastic_shuffle ==
    /\ gd_loop = "stochastic" /\ gd_pc = "loop"
    /\ gd_i < StochasticEpochs
    /\ gd_updates + Len(gd_data) <= MaxUpdates \/ Fitted
    /\ gd_indices' \in Shuffles(Len(gd_data))
    /\ gd_used' = <<>>
    /\ gd_pc' = "epoch"
    /\ UNCHANGED <<gd_loop, gd_data, gd_b, gd_w, gd_i, gd_last, gd_updates>>
    /\ GdFrame

\* An update that draws its row at random instead of following indices.
stochastic_update_sampled ==
    /\ gd_loop = "stochastic" /\ gd_pc = "epoch"
    /\ Len(gd_used) < Len(gd_indices)
    /\ \E j \in 1..Len(gd_data) :
          /\ Update(j, stochastic_step(gd_data[j][1], gd_data[j][2], gd_b, gd_w,
                                       Len(gd_data), alpha))
          /\ gd_used' = Append(gd_used, j)
    /\ UNCHANGED <<gd_loop, gd_data, gd_i, gd_pc, gd_indices>>
    /\ GdFrame

\* One pass of for j in indices: b, w = stochastic_step(data[j], b, w).
stochastic_update ==
    /\ gd_loop = "stochastic" /\ gd_pc = "epoch"
    /\ Len(gd_used) < Len(gd_indices)
    /\ LET j == gd_indices[Len(gd_used) + 1]
       IN /\ Update(j, stochastic_step(gd_data[j][1], gd_data[j][2], gd_b, gd_w,
                                       Len(gd_data), alpha))
          /\ gd_used' = Append(gd_used, j)
    /\ UNCHANGED <<gd_loop, gd_data, gd_i, gd_pc, gd_indices>>
    /\ GdFrame

\* End of for j in indices: the next i.
stochastic_epoch_end ==
    /\ gd_loop = "stochastic" /\ gd_pc = "epoch"
    /\ Len(gd_used) = Len(gd_indices)
    /\ gd_i' = gd_i + 1
    /\ gd_pc' = "loop"
    /\ UNCHANGED <<gd_loop, gd_data, gd_b, gd_w, gd_indices, gd_used, gd_last,
                   gd_updates>>
    /\ GdFrame

\* One iteration of for i in range(1000): w = w - loss_grad(w, X, y) * 0.01.
autograd_iteration ==
    /\ gd_loop = "autograd" /\ gd_pc = "loop"
    /\ gd_i < AutogradIterations
    /\ gd_updates < MaxUpdates \/ Fitted
    /\ LET g == loss_grad(<<gd_b, gd_w>>, gd_data)
       IN Update(0, <<RSub(gd_b, RMul(g[1], alpha)), RSub(gd_w, RMul(g[2], alpha))>>)
    /\ gd_i' = gd_i + 1
    /\ UNCHANGED <<gd_loop, gd_data, gd_pc, gd_indices, gd_used>>
    /\ GdFrame

\* range(n) of the loop run.
Range ==
    CASE gd_loop \in {"batch", "multi_batch"} -> BatchIterations
      [] gd_loop = "stochastic" -> StochasticEpochs
      [] gd_loop = "autograd" -> AutogradIterations

\* The for loop has gone through its range: the final print.
loop_end ==
    /\ gd_pc = "loop"
    /\ gd_i = Range
    /\ gd_pc' = "done"
    /\ UNCHANGED <<gd_loop, gd_data, gd_b, gd_w, gd_i, gd_indices, gd_used,
                   gd_last, gd_updates>>
    /\ GdFrame

NextGradientDescent ==
    \/ batch_iteration
    \/ multi_batch_iteration
    \/ stochastic_shuffle
    \/ stochastic_update
    \/ stochastic_epoch_end
    \/ autograd_iteration
    \/ loop_end

SpecGradientDescent == InitGradientDescent /\ [][NextGradientDescent]_vars

\* ------------------------------------------------- dummy-variable sample
RECURSIVE SumTo(_, _)
SumTo(v, k) == IF k = 0 THEN 0 ELSE v[k] + SumTo(v, k - 1)

\* A draw that counts one trial more than it was asked for.
multinomial_rvs_extra_trial(trials, k) ==
    {v \in [1..k -> 0..(trials + 1)] : SumTo(v, k) = trials + 1}

\* multinomial.rvs(trials, p) for k = len(p) categories of positive
\* probability: the counts of the categories over the trials.
multinomial_rvs(trials, k) ==
    {v \in [1..k -> 0..trials] : SumTo(v, k) = trials}

\* The values norm.rvs(25, 1) and norm.rvs(0, 1) can draw.
Ages == {24, 26}
Noises == {-1, 1}

\* w = np.array([5.0, 3.0, 0.0, 0.8, 0.0, -2.0, 3.0])
weights == <<Num(5), Num(3), Num(0), <<4, 5>>, Num(0), Num(-2), Num(3)>>

\* np.dot(row, w) over the columns 1..k
RECURSIVE dot(_, _, _)
dot(row, w, k) ==
    IF k = 0 THEN Num(0) ELSE RAdd(dot(row, w, k - 1), RMul(Num(row[k]), w[k]))

Rows == 1..NumPoints

InitSample ==
    /\ sample \in [intercept : {[i \in Rows |-> <<1>>]},
                   age : [Rows -> {<<a>> : a \in Ages}],
                   gender : [Rows -> multinomial_rvs(1, 2)],
                   height : [Rows -> multinomial_rvs(1, 3)],
                   noise : [Rows -> Noises]]
    /\ sim_X = <<>>
    /\ sim_y = <<>>
    /\ cell = "sample"
    /\ RsquareIdle
    /\ ScriptIdle
    /\ InfosIdle
    /\ PagesIdle
    /\ GdIdle
    /\ DownloadIdle
    /\ FeaturesIdle
    /\ job = "none"
    /\ results = <<>>

SampleFrame ==
    UNCHANGED <<dvars, fvars, job, results, script, mp3_0, dataset, gvars, rvars,
                pvars>>

\* X = np.hstack([intercept, age, gender, height])
hstack ==
    /\ cell = "sample"
    /\ sim_X' = [i \in Rows |-> sample.intercept[i] \o sample.age[i]
                              \o sample.gender[i] \o sample.height[i]]
    /\ cell' = "X"
    /\ UNCHANGED <<sample, sim_y>>
    /\ SampleFrame

\* y = np.dot(X, w) + noise
simulate_y ==
    /\ cell = "X"
    /\ sim_y' = [i \in Rows |-> RAdd(dot(sim_X[i], weights, Len(weights)),
                                 Num(sample.noise[i]))]
    /\ cell' = "y"
    /\ UNCHANGED <<sample, sim_X>>
    /\ SampleFrame

NextSample == hstack \/ simulate_y

SpecSample == InitSample /\ [][NextSample]_vars

\* ------------------------------------------------------------- pseudo R^2
\* p < q for fractions
RLess(p, q) == p[1] * q[2] < q[1] * p[2]

\* t=0.5
threshold == <<1, 2>>

\* The probabilities a prediction can hold: below, at and above the threshold.
Probabilities == {<<1, 10>>, <<1, 2>>, <<9, 10>>}

ReturnFloat(q) == [kind |-> "float", val |-> q]
ZeroDivisionError == [kind |-> "raise", val |-> <<0, 1>>]
NotRun == [kind |-> "pending", val |-> <<0, 1>>]

\* [1.0 if p < t else 0.0 for p in y_pred]: the classes swapped.
y_correct_swapped(pred, t) ==
    [i \in 1..Len(pred) |-> IF RLess(pred[i], t) THEN 1 ELSE 0]

\* y_correct = np.array([0.0 if p < t else 1.0 for p in y_pred])
y_correct(pred, t) ==
    [i \in 1..Len(pred) |-> IF RLess(pred[i], t) THEN 0 ELSE 1]

Min(a, b) == IF a < b THEN a ELSE b
Max(a, b) == IF a > b THEN a ELSE b

\* sum([1.0 for p, p_pred in zip(y, y_correct) if p == p_pred]) over the
\* first k pairs
RECURSIVE sum_zip(_, _, _)
sum_zip(labels, correct, k) ==
    IF k = 0
    THEN 0
    ELSE sum_zip(labels, correct, k - 1)
            + (IF labels[k] = correct[k] THEN 1 ELSE 0)

get_num_correct(labels, pred, t) ==
    sum_zip(labels, y_correct(pred, t), Min(Len(labels), Len(pred)))

count_rsquare(labels, pred, t) ==
    LET n == Len(labels)
        num_correct == get_num_correct(labels, pred, t)
    IN IF n = 0 THEN ZeroDivisionError ELSE ReturnFloat(Rat(num_correct, n))

\* The loop of get_count_most_freq_outcome over the labels k.. with the
\* counts so far.
RECURSIVE get_count_most_freq_outcome_loop(_, _, _, _)
get_count_most_freq_outcome_loop(labels, k, num_0, num_1) ==
    IF k > Len(labels)
    THEN Max(num_0, num_1)
    ELSE IF labels[k] = 1
         THEN get_count_most_freq_outcome_loop(labels, k + 1, num_0, num_1 + 1)
         ELSE get_count_most_freq_outcome_loop(labels, k + 1, num_0 + 1, num_1)

get_count_most_freq_outcome(labels) ==
    get_count_most_freq_outcome_loop(labels, 1, 0, 0)

count_adjusted_rsquare(labels, pred, t) ==
    LET correct == get_num_correct(labels, pred, t)
        total == Len(labels)
        n == get_count_most_freq_outcome(labels)
    IN IF total - n = 0
       THEN ZeroDivisionError
       ELSE ReturnFloat(Rat(correct - n, total - n))

InitRsquare ==
    /\ \E n \in 1..MaxLen :
        /\ y_true \in [1..n -> {0, 1}]
        /\ y_pred \in [1..n -> Probabilities]
    /\ rsquare = [count |-> NotRun, adjusted |-> NotRun]
    /\ cell = "y_pred"
    /\ ScriptIdle
    /\ InfosIdle
    /\ PagesIdle
    /\ GdIdle
    /\ SampleIdle
    /\ DownloadIdle
    /\ FeaturesIdle
    /\ job = "none"
    /\ results = <<>>

RsquareFrame ==
    UNCHANGED <<dvars, fvars, job, results, script, mp3_0, dataset, gvars, svars,
                pvars, y_true, y_pred>>

\* count_rsquare(y, y_pred)
count_rsquare_cell ==
    /\ cell = "y_pred"
    /\ rsquare' = [rsquare EXCEPT !.count = count_rsquare(y_true, y_pred, threshold)]
    /\ cell' = "count_rsquare"
    /\ RsquareFrame

\* count_adjusted_rsquare(y, y_pred)
count_adjusted_rsquare_cell ==
    /\ cell = "count_rsquare"
    /\ rsquare' = [rsquare EXCEPT
                      !.adjusted = count_adjusted_rsquare(y_true, y_pred, threshold)]
    /\ cell' = "count_adjusted_rsquare"
    /\ RsquareFrame

NextRsquare == count_rsquare_cell \/ count_adjusted_rsquare_cell

SpecRsquare == InitRsquare /\ [][NextRsquare]_vars

\* ================================================================== claims

IsBlank(s) == \A i \in 1..Len(s) : s[i] \in Whitespace

\* The part of text after its first '=' (the whole text when it has none).
AfterFirstEq(text, rest) ==
    \/ /\ \A i \in 1..Len(text) : text[i] # "="
       /\ rest = text
    \/ \E k \in 1..Len(text) :
        /\ text[k] = "="
        /\ \A i \in 1..(k - 1) : text[i] # "="
        /\ rest = SubSeq(text, k + 1, Len(text))

\* core is rest without its leading and trailing blanks.
Trimmed(rest, core) ==
    \E a \in 1..(Len(rest) + 1) : \E b \in 0..Len(rest) :
        /\ core = SubSeq(rest, a, b)
        /\ IsBlank(SubSeq(rest, 1, a - 1))
        /\ IsBlank(SubSeq(rest, b + 1, Len(rest)))
        /\ core # <<>> => core[1] \notin Whitespace /\ core[Len(core)] \notin Whitespace

\* url is "https:" followed by the trimmed part of text after its first '='.
ReDerivedFrom(text, url) ==
    /\ Len(url) >= 6
    /\ SubSeq(url, 1, 6) = <<"h", "t", "t", "p", "s", ":">>
    /\ \E k \in 0..Len(text) :
        /\ AfterFirstEq(text, SubSeq(text, k + 1, Len(text)))
        /\ Trimmed(SubSeq(text, k + 1, Len(text)), SubSeq(url, 7, Len(url)))

\* C1: download_save issues at most two HTTP requests per item; the second is
\* made only after the first raised RelativeURIError, it targets the URL
\* re-derived from the text of that error, and when it raises RelativeURIError
\* too the call returns 0 with no further request.
C1_AtMostTwoRequests ==
    \A t \in Tasks :
        /\ Len(requested[t]) <= 2
        /\ Len(requested[t]) >= 1 => requested[t][1].url = download_info[t].url
        /\ Len(requested[t]) = 2 =>
            /\ requested[t][1].outcome = "RelativeURIError"
            /\ ReDerivedFrom(errtext[t], requested[t][2].url)
            /\ requested[t][2].outcome = "RelativeURIError" =>
                /\ dpc[t] = "done"
                /\ dres[t] = ReturnInt(0)

\* A call made two requests, both raised RelativeURIError, and it returned 0;
\* the text of the first error held a '=' inside the address and ended in "\r".
C1_Witness ==
    \E t \in Tasks :
        /\ dpc[t] = "done"
        /\ Len(requested[t]) = 2
        /\ requested[t][2].outcome = "RelativeURIError"
        /\ requested[t][2].url = <<"h", "t", "t", "p", "s", ":", "/", "/", "m", "?", "k", "=", "a">>
        /\ dres[t] = ReturnInt(0)

\* A download failed: a request raised, or the write of the mp3 failed.
DownloadFailed(t) ==
    \/ /\ requested[t] # <<>>
       /\ requested[t][Len(requested[t])].outcome # "ok"
    \/ wrote[t] \in {"open_fail", "write_fail"}

\* C2 (as claimed): every failure of a download_save task (a failed request on
\* either attempt, a failed write) ends with the task returning the sentinel 0,
\* and no failure of a task aborts the job.
C2_FailureGivesSentinel ==
    /\ job # "aborted"
    /\ \A t \in Tasks :
        (dpc[t] = "done" /\ DownloadFailed(t)) => dres[t] = ReturnInt(0)

\* C6 (as claimed): download_save returns 1 whenever it has written the
\* downloaded content, after the first or after the retried request, and a
\* call that returns returns 0 or 1.
C6_ReturnsOneOrZero ==
    \A t \in Tasks :
        dpc[t] = "done" =>
            /\ wrote[t] = "ok" => dres[t] = ReturnInt(1)
            /\ dres[t].kind # "raise" => dres[t] \in {ReturnInt(0), ReturnInt(1)}

\* C9: in the cached download_save, a call entered while the item's mp3 file
\* exists returns 1 at once: no HTTP request, no write, the files unchanged.
C9_CachedHit ==
    [][\A t \in Tasks :
          (cached /\ dpc[t] = "start" /\ dpc'[t] # "start"
                  /\ exists(mp3[download_info[t].mp3])) =>
              /\ dpc'[t] = "done"
              /\ dres'[t] = ReturnInt(1)
              /\ requested'[t] = <<>>
              /\ wrote'[t] = "none"
              /\ mp3' = mp3]_vars

\* A call of the cached variant has returned 1 without a request, its file
\* being one an earlier run left.
C9_Witness ==
    \E t \in Tasks :
        /\ cached
        /\ dpc[t] = "done"
        /\ dres[t] = ReturnInt(1)
        /\ requested[t] = <<>>
        /\ wrote[t] = "none"
        /\ exists(mp3[download_info[t].mp3])

\* The stage raised an exception / the stage did not produce its file.
StageRaised(o) == o \in {"extract_fail", "open_fail", "dump_fail"}
StageFailed(o) == StageRaised(o) \/ o = "close_fail"
StageWrote(o) == o \in {"dump_fail", "close_fail", "ok"}

\* C3, with the codes taken as the code assigns them (result is assigned -1
\* and then -2, so the chroma code wins when both stages fail): a failed load
\* gives -3, a failed chroma stage gives -2, and a failed spectral stage gives
\* -1 when the chroma stage does not fail too; a stage fails when its
\* extraction or its pickling fails.
C3_FailedStageHasItsCode ==
    \A t \in Tasks :
        fpc[t] = "done" =>
            /\ flog[t].load = "fail" => fres[t] = ReturnInt(-3)
            /\ StageFailed(flog[t].c) => fres[t] = ReturnInt(-2)
            /\ (StageFailed(flog[t].s) /\ ~StageFailed(flog[t].c)) =>
                   fres[t] = ReturnInt(-1)

\* C4: save_features never raises: whatever the load, the extractions and the
\* picklings do, a finished call has returned one of 1, -1, -2, -3.
C4_NeverRaises ==
    \A t \in Tasks :
        fpc[t] = "done" =>
            /\ fres[t].kind = "int"
            /\ fres[t].val \in {1, -1, -2, -3}

\* One call whose load failed returned -3 and another, whose two picklings
\* failed, returned -2.
C4_Witness ==
    \E t, u \in Tasks :
        /\ fpc[t] = "done" /\ flog[t].load = "fail" /\ fres[t] = ReturnInt(-3)
        /\ fpc[u] = "done" /\ flog[u].s = "dump_fail" /\ flog[u].c = "open_fail"
        /\ fres[u] = ReturnInt(-2)

\* C5 (as claimed): the number printed as 'files processed' is the number of
\* entries of the result list that equal 1.
C5_PrintedCountsSuccesses ==
    printed # <<>> =>
        printed[1] = Cardinality({t \in Tasks : results[t] = ReturnInt(1)})

\* C7: over sequential calls, within a run and across re-runs, each feature
\* file is opened for writing at most once: a call never writes a spectral or
\* chroma file that exists.
C7_WrittenAtMostOnce ==
    \A id \in Ids : swrites[id] <= 1 /\ cwrites[id] <= 1

\* In a re-run, a call found the spectral file written earlier, skipped that
\* stage, and wrote the chroma file that was still missing.
C7_Witness ==
    \E t \in Tasks :
        /\ run > 1
        /\ fpc[t] = "done"
        /\ flog[t].s = "skipped" /\ StageWrote(flog[t].c)
        /\ swrites[recording[t]] = 1 /\ cwrites[recording[t]] = 1

\* C8: once a call for an id has returned 1, every call for that id entered
\* later returns 1 at once: no load, no extraction, no write, and the files
\* are left as they were.
C8_RerunIdempotent ==
    [][\A t \in Tasks :
          (fpc[t] = "start" /\ fpc'[t] # "start" /\ recording[t] \in succeeded) =>
              /\ fpc'[t] = "done"
              /\ fres'[t] = ReturnInt(1)
              /\ flog'[t] = NoLog
              /\ spectral' = spectral /\ chroma' = chroma
              /\ swrites' = swrites /\ cwrites' = cwrites]_vars

\* In a re-run, a call entered after a success for its id has returned 1
\* having done nothing.
C8_Witness ==
    \E t \in Tasks :
        /\ run > 1
        /\ after[t]
        /\ fpc[t] = "done"
        /\ fres[t] = ReturnInt(1)
        /\ flog[t] = NoLog

\* C10: the existence check and the write are separate steps and the check is
\* not repeated: a call that found the spectral file missing runs the stage
\* whatever other calls have done to the file meanwhile, and when its pickling
\* opens the file that is one more write of it. (The race itself is the
\* reachable state C10_Witness.)
C10_CheckNotAtomic ==
    [][\A t \in Tasks :
          (fpc[t] = "spectral" /\ fpc'[t] # "spectral") =>
              /\ flog'[t].s \in {"opened", "extract_fail", "open_fail"}
              /\ flog'[t].s = "opened" =>
                     /\ fpc'[t] = "spectral_dump"
                     /\ swrites'[recording[t]] = swrites[recording[t]] + 1]_vars

\* Two concurrent calls for the same id both found the spectral file missing,
\* both extracted, and both wrote the file.
C10_Witness ==
    \E t, u \in Tasks :
        /\ t # u /\ recording[t] = recording[u]
        /\ flog[t].s = "ok" /\ flog[u].s = "ok"
        /\ swrites[recording[t]] = 2
        /\ spectral[recording[t]] = "complete"

\* Number of the entries that precede those of page p in page order.
RECURSIVE PageOffset(_)
PageOffset(p) ==
    IF p <= 1 THEN 0 ELSE PageOffset(p - 1) + Len(dataset[p - 1].recordings)

\* The places <<p, k>> of the recordings: page p, k-th recording of the page.
Places == {pk \in (1..Len(dataset)) \X (1..MaxRecs + 1) :
              pk[2] <= Len(dataset[pk[1]].recordings)}

PlaceItem(pk) == dataset[pk[1]].recordings[pk[2]]
PlaceEntry(pk) == download_info[PageOffset(pk[1]) + pk[2]]

\* C12: get_recording_download_infos returns exactly one entry per recording
\* over all pages, in page order and within a page in recording order;
\* recordings with distinct ids get distinct mp3 paths, so that with pairwise
\* distinct ids the number of distinct paths equals the number of entries.
C12_OneEntryPerRecording ==
    cell = "download_info" =>
        /\ Len(download_info) = PageOffset(Len(dataset) + 1)
        /\ \A pk \in Places :
            /\ PlaceEntry(pk).url = <<"h", "t", "t", "p", "s", ":">> \o PlaceItem(pk).file
            /\ SubSeq(PlaceEntry(pk).mp3, 7, Len(PlaceEntry(pk).mp3) - 4)
                   = PlaceItem(pk).id
        /\ \A pk \in Places : \A ql \in Places :
            PlaceItem(pk).id # PlaceItem(ql).id =>
                PlaceEntry(pk).mp3 # PlaceEntry(ql).mp3
        /\ (\A pk \in Places : \A ql \in Places :
                pk # ql => PlaceItem(pk).id # PlaceItem(ql).id) =>
           Cardinality({download_info[i].mp3 : i \in 1..Len(download_info)})
               = Len(download_info)

\* Two non-empty pages with three recordings of pairwise distinct ids.
C12_Witness ==
    /\ cell = "download_info"
    /\ Len(dataset) = 2
    /\ Len(dataset[1].recordings) = 2
    /\ Len(dataset[2].recordings) = 1
    /\ Len(download_info) = 3
    /\ Cardinality({download_info[i].mp3 : i \in 1..3}) = 3

\* What one call of download_save does on its own, given its script and the
\* state f of its mp3 file: its result and the file it leaves.
download_save_alone(sc, f, isCached) ==
    CASE isCached /\ f # "absent" -> [res |-> ReturnInt(1), file |-> f]
      [] ~(isCached /\ f # "absent") /\ sc.first = "ok" ->
            [res |-> IF sc.write = "ok" THEN ReturnNone ELSE Raised,
             file |-> written(f, sc.write)]
      [] ~(isCached /\ f # "absent") /\ sc.first = "RelativeURIError"
            /\ sc.second = "ok" ->
            [res |-> IF sc.write = "ok" THEN ReturnInt(1) ELSE Raised,
             file |-> written(f, sc.write)]
      [] ~(isCached /\ f # "absent") /\ sc.first = "RelativeURIError"
            /\ sc.second = "RelativeURIError" ->
            [res |-> ReturnInt(0), file |-> f]
      [] OTHER -> [res |-> Raised, file |-> f]

AloneOf(t) ==
    download_save_alone(script[t], mp3_0[download_info[t].mp3], cached)

\* C11: in the parallel download job over items with pairwise distinct ids
\* every task touches only the file of its own id, so when the job has ended
\* (and no call is still running) the files and the recorded results are those
\* of the calls run on their own, whatever the interleaving was.
C11_SameUnderEveryInterleaving ==
    /\ (job # "running" /\ \A t \in Tasks : dpc[t] \in {"start", "done"}) =>
        \A t \in Tasks : mp3[download_info[t].mp3] = AloneOf(t).file
    /\ job = "finished" => results = [t \in Tasks |-> AloneOf(t).res]

\* C13: in every epoch of the stochastic loop each row of the data is used
\* for exactly one update, in the shuffled order, every update starts from the
\* parameters the previous update returned, and an epoch makes N updates.
C13_EpochUsesEachRowOnce ==
    [][gd_loop = "stochastic" =>
        /\ gd_pc' = "epoch" =>
            /\ gd_used' = SubSeq(gd_indices', 1, Len(gd_used'))
            /\ \A r \in 1..Len(gd_data) :
                Cardinality({k \in 1..Len(gd_indices') : gd_indices'[k] = r}) = 1
        /\ gd_pc' = "loop" =>
            /\ gd_updates' = gd_i' * Len(gd_data)
            /\ gd_i' > 0 =>
                \A r \in 1..Len(gd_data) :
                    Cardinality({k \in 1..Len(gd_used') : gd_used'[k] = r}) = 1
        /\ gd_updates' # gd_updates =>
            /\ gd_updates' = gd_updates + 1
            /\ gd_last'[1].given = IF gd_last = <<>>
                                   THEN <<<<0, 1>>, <<0, 1>>>>
                                   ELSE gd_last[1].returned
            /\ gd_last'[1].returned = <<gd_b', gd_w'>>]_vars

\* An epoch whose shuffle reversed the rows has made its N updates, and they
\* moved the parameters.
C13_Witness ==
    /\ gd_loop = "stochastic"
    /\ gd_pc = "loop"
    /\ gd_i = 1
    /\ gd_used = <<2, 1>> \o [k \in 1..(Len(gd_data) - 2) |-> k + 2]
    /\ gd_last[1].returned # gd_last[1].given
    /\ gd_b # <<0, 1>>

\* The sum of f over the rows 1..n of the data, last row first.
RECURSIVE RowSum(_, _, _, _)
RowSum(data, b, w, n) ==
    IF n = 0
    THEN <<<<0, 1>>, <<0, 1>>>>
    ELSE LET rest == RowSum(data, b, w, n - 1)
             r == RSub(<<data[n][2], 1>>,
                       RAdd(b, RMul(w, <<data[n][1], 1>>)))
         IN <<RAdd(r, rest[1]), RAdd(RMul(<<data[n][1], 1>>, r), rest[2])>>

\* C14: batch_step accumulates the gradients of all N rows from its inputs b
\* and w as they were passed, and returns b - alpha * b_grad and
\* w - alpha * w_grad computed from those sums (a simultaneous update); the
\* data is not modified.
C14_SimultaneousUpdate ==
    [][gd_loop = "batch" /\ gd_updates' # gd_updates =>
        LET sums == RowSum(gd_data, gd_b, gd_w, Len(gd_data))
            step == <<2, 100 * Len(gd_data)>>
        IN /\ gd_data' = gd_data
           /\ gd_last'[1].given = <<gd_b, gd_w>>
           /\ gd_last'[1].returned[1] = RAdd(gd_b, RMul(step, sums[1]))
           /\ gd_last'[1].returned[2] = RAdd(gd_w, RMul(step, sums[2]))
           /\ <<gd_b', gd_w'>> = gd_last'[1].returned]_vars

\* A batch step taken from parameters other than the initial guess.
C14_Witness ==
    /\ gd_loop = "batch"
    /\ gd_updates = 2
    /\ gd_data[1] # gd_data[2]
    /\ gd_last[1].given[1] # <<0, 1>>
    /\ gd_last[1].given[2] # <<0, 1>>
    /\ gd_last[1].returned[1] # gd_last[1].given[1]
    /\ gd_last[1].returned[2] # gd_last[1].given[2]

\* C15: every gradient descent loop stops after its fixed number of
\* iterations (10000 batch steps, of batch_step and of multi_batch_step, 2000
\* stochastic epochs, 1000 autograd steps) and not before, whatever the
\* parameters are, and a batch iteration makes exactly one parameter update.
C15_FixedIterationCount ==
    /\ gd_loop \in {"batch", "multi_batch"} =>
        /\ gd_updates = gd_i
        /\ gd_pc = "done" <=> gd_i = 10000 /\ gd_pc # "loop"
    /\ gd_loop = "stochastic" =>
        /\ gd_pc = "done" <=> gd_i = 2000 /\ gd_pc # "loop"
        /\ gd_pc = "done" => gd_updates = 2000 * Len(gd_data)
    /\ gd_loop = "autograd" =>
        /\ gd_updates = gd_i
        /\ gd_pc = "done" <=> gd_i = 1000 /\ gd_pc # "loop"
    /\ gd_loop # "none" => gd_i <= Range

\* The batch loop has ended on data its parameters fitted from the start.
C15_Witness ==
    /\ gd_loop = "batch"
    /\ gd_pc = "done"
    /\ gd_updates = 10000
    /\ gd_last[1].returned = gd_last[1].given

Male == <<1, 0>>
Medium == <<0, 1, 0>>
Tall == <<0, 0, 1>>

\* C17: the simulated response is y = 5 + 3 * age + 0.8 * [gender is male]
\* - 2 * [height is tall] + 3 * [height is medium] + noise, male being the
\* first gender category and short, medium, tall the first, second and third
\* height category of the one-hot blocks of X.
C17_SimulatedResponse ==
    cell = "y" =>
        \A i \in Rows :
            sim_y[i] = RAdd(RAdd(RAdd(RAdd(RAdd(<<5, 1>>,
                       <<3 * sample.age[i][1], 1>>),
                       IF sample.gender[i] = Male THEN <<4, 5>> ELSE <<0, 1>>),
                       IF sample.height[i] = Tall THEN <<-2, 1>> ELSE <<0, 1>>),
                       IF sample.height[i] = Medium THEN <<3, 1>> ELSE <<0, 1>>),
                       <<sample.noise[i], 1>>)

\* C18: every row of the gender block (2 columns) and of the height block
\* (3 columns) of X holds exactly one 1 and zeros elsewhere, k levels giving
\* k indicator columns, and the sum of each block over a row equals the
\* intercept column.
C18_OneHotBlocks ==
    cell \in {"X", "y"} =>
        \A i \in Rows :
            /\ Len(sim_X[i]) = 7
            /\ \A c \in 3..7 : sim_X[i][c] \in {0, 1}
            /\ Cardinality({c \in 3..4 : sim_X[i][c] = 1}) = 1
            /\ Cardinality({c \in 5..7 : sim_X[i][c] = 1}) = 1
            /\ sim_X[i][3] + sim_X[i][4] = sim_X[i][1]
            /\ sim_X[i][5] + sim_X[i][6] + sim_X[i][7] = sim_X[i][1]

\* X is built, with rows of different gender and height.
C18_Witness ==
    /\ cell = "X"
    /\ sim_X[1][3] = 1 /\ sim_X[2][4] = 1
    /\ sim_X[1][7] = 1 /\ sim_X[2][6] = 1

\* The observations whose label is the class of their probability: 1 from
\* 0.5 on, 0 below.
Matches ==
    {i \in 1..Len(y_true) :
        y_true[i] = 1 <=> 2 * y_pred[i][1] >= y_pred[i][2]}

\* C19: count_rsquare(y, y_pred) is the number of observations whose label
\* matches the probability thresholded at 0.5, divided by the number of
\* observations, and lies in [0, 1] for non-empty binary labels.
C19_CountRsquare ==
    cell # "y_pred" =>
        /\ rsquare.count.kind = "float"
        /\ rsquare.count.val[1] * Len(y_true)
               = Cardinality(Matches) * rsquare.count.val[2]
        /\ 0 <= rsquare.count.val[1]
        /\ rsquare.count.val[1] <= rsquare.count.val[2]

\* Some observations match and some do not; one probability is exactly 0.5.
C19_Witness ==
    /\ cell = "count_rsquare"
    /\ Len(y_true) = 3
    /\ Cardinality(Matches) = 2
    /\ \E i \in 1..3 : y_pred[i] = <<1, 2>> /\ i \in Matches
    /\ rsquare.count.val = <<2, 3>>

\* The number of observations of the most frequent label.
MostFrequent ==
    LET ones == Cardinality({i \in 1..Len(y_true) : y_true[i] = 1})
    IN IF 2 * ones >= Len(y_true) THEN ones ELSE Len(y_true) - ones

\* C20: count_adjusted_rsquare(y, y_pred) is (C - n) / (T - n), C the number
\* of matching observations, T the number of observations and n the count of
\* the most frequent label, and lies in [0, 1] for every binary y and every
\* prediction vector.
C20_AdjustedCountRsquare ==
    cell = "count_adjusted_rsquare" =>
        /\ rsquare.adjusted.kind = "float"
        /\ rsquare.adjusted.val[1] * (Len(y_true) - MostFrequent)
               = (Cardinality(Matches) - MostFrequent) * rsquare.adjusted.val[2]
        /\ 0 <= rsquare.adjusted.val[1]
        /\ rsquare.adjusted.val[1] <= rsquare.adjusted.val[2]

\* C21: when save_features returns 1, the spectral and the chroma file of
\* its id both exist when the call returns (and from then on).
C21_SuccessMeansBothFiles ==
    \A t \in Tasks :
        fres[t] = ReturnInt(1) =>
            /\ spectral[recording[t]] # "absent"
            /\ chroma[recording[t]] # "absent"

\* A call ran both stages, both succeeded, and it returned 1.
C21_Witness ==
    \E t \in Tasks :
        /\ fres[t] = ReturnInt(1)
        /\ flog[t].s = "ok"
        /\ flog[t].c = "ok"

\* C22: a feature file exists only if its stage completed: a spectral or
\* chroma stage that fails, in the extraction or in the pickling, leaves no
\* file for that stage, so that a re-run retries the stage.
C22_FailedStageLeavesNoFile ==
    [][\A t \in Tasks :
        /\ fpc[t] \in {"spectral", "spectral_dump"} /\ fpc'[t] = "chroma_check"
              /\ StageFailed(flog'[t].s) =>
              spectral'[recording[t]] = "absent"
        /\ fpc[t] \in {"chroma", "chroma_dump"} /\ fpc'[t] = "done"
              /\ StageFailed(flog'[t].c) =>
              chroma'[recording[t]] = "absent"]_vars

\* C26: in save_features the load precedes every stage: no stage is checked,
\* run or skipped unless the load succeeded, a failed load ends the call with
\* no stage run and no file touched, and a failed spectral stage is followed
\* by the chroma stage in the same call.
C26_LoadFirstChromaAfterFailure ==
    [][\A t \in Tasks :
        /\ fpc'[t] \in {"spectral_check", "spectral", "spectral_dump",
                        "chroma_check", "chroma", "chroma_dump"} =>
              flog'[t].load = "ok"
        /\ flog'[t].s # "none" \/ flog'[t].c # "none" => flog'[t].load = "ok"
        /\ fpc[t] = "load" /\ flog'[t].load = "fail" =>
              /\ fpc'[t] = "done"
              /\ spectral' = spectral /\ chroma' = chroma
              /\ swrites' = swrites /\ cwrites' = cwrites
        /\ fpc'[t] = "done" /\ flog'[t].load = "fail" =>
              flog'[t].s = "none" /\ flog'[t].c = "none"
        /\ fpc[t] \in {"spectral", "spectral_dump"} /\ fpc'[t] # fpc[t]
              /\ StageFailed(flog'[t].s) =>
              fpc'[t] = "chroma_check"
        /\ fpc'[t] = "done" /\ StageFailed(flog'[t].s) =>
              flog'[t].c # "none"]_vars

\* The spectral stage failed and the chroma stage of the same call ran and
\* wrote its file.
C26_Witness ==
    \E t \in Tasks :
        /\ fpc[t] = "done"
        /\ flog[t].s = "extract_fail"
        /\ flog[t].c = "ok"
        /\ chroma[recording[t]] = "complete"
        /\ fres[t] = ReturnInt(-1)

\* C23: a download_save call that returns 0 has created or modified no file
\* at its item's mp3 path: the returning step leaves the path as it was, the
\* call has made no write, every change of the path is a write of the call
\* that owns it, and in the cached variant the path is still absent, so that
\* a later run does not take the item for downloaded.
C23_ZeroMeansNoFile ==
    [][\A t \in Tasks :
        /\ dres'[t] = ReturnInt(0) =>
              /\ wrote'[t] = "none"
              /\ mp3'[download_info[t].mp3] = mp3[download_info[t].mp3]
              /\ cached => ~exists(mp3'[download_info[t].mp3])
        /\ mp3'[download_info[t].mp3] # mp3[download_info[t].mp3] =>
              /\ dpc[t] \in {"write1", "writing1", "write2", "writing2"}
              /\ wrote'[t] # "none"]_vars

\* A cached call made two requests, both ended in RelativeURIError, and it
\* returned 0 with its mp3 path absent.
C23_Witness ==
    \E t \in Tasks :
        /\ dres[t] = ReturnInt(0)
        /\ cached
        /\ Len(requested[t]) = 2
        /\ requested[t][2].outcome = "RelativeURIError"
        /\ ~exists(mp3[download_info[t].mp3])

\* C24: in the cached page loader an iteration that fetches page i leaves
\* ./json/i.json holding the content of page i, and a run that completes
\* after an earlier completed run produces the same dataset.
C24_CacheHoldsFetchedPage ==
    [][/\ \A k \in 1..MaxPages :
            /\ ppc = "cached pages" /\ loop_i = k /\ loop_i' = k + 1
            /\ json_dir'[k] # json_dir[k]
            => json_dir'[k] = FileWith(h_request(k))
       /\ ppc = "cached pages" /\ ppc' = "cached done" /\ fetched # <<>> =>
            dataset' = fetched[1]]_vars

\* C25: once the page loop of download-json.ipynb has ended, dataset has
\* num_pages entries, entry k-1 is the parsed response for page k, the pages
\* 1..num_pages were requested once each, and every file the save loop has
\* written, ./json/k.json, holds entry k-1.
C25_DatasetIsThePages ==
    /\ ppc \in {"save", "saved"} =>
          /\ num_pages = site
          /\ Len(dataset) = num_pages
          /\ \A k \in 1..num_pages : dataset[k] = json_loads(h_request(k))
          /\ page_requests = [k \in 1..num_pages |-> k]
    /\ ppc = "save" =>
          \A k \in 1..loop_i : json_dir[k] = FileWith(json_dumps(dataset[k]))
    /\ ppc = "saved" =>
          \A k \in 1..num_pages : json_dir[k] = FileWith(json_dumps(dataset[k]))

\* Two pages were fetched and both were saved.
C25_Witness ==
    /\ ppc = "saved"
    /\ num_pages >= 2
    /\ Len(dataset) = num_pages
    /\ json_dir[2] = FileWith(h_request(2))

\* C27: the parallel job terminates with a result list that has one entry
\* per item, every task having returned.
C27_JobEndsWithOneResultPerItem ==
    <>(/\ job = "finished"
       /\ Len(results) = NumItems
       /\ \A t \in Tasks : Finished(dres[t]) /\ results[t] = dres[t])

====
